---- MODULE Spec2Model ----
(***************************************************************************)
(* Model of the dropout-risk engine (src/utils/risk_calculator.py) and of  *)
(* the module-level RiskCalculator instance the web layer calls            *)
(* (src/app.py).                                                           *)
(*                                                                         *)
(* Numbers.  Python floats are modelled as exact rationals with the fixed  *)
(* denominator Unit: a float x is the integer x * Unit.  Unit = 90000 is   *)
(* the smallest denominator in which every component risk of an integer    *)
(* record (x/75, x/100, x/90, x/4), every weighted contribution (weights   *)
(* in hundredths) and every value rounded to 3 decimals is an integer.     *)
(* Weights and thresholds are kept in hundredths (0.50 is 50).  The        *)
(* rounding error of binary doubles is not modelled: a value that is       *)
(* exactly on a threshold, exactly equal to another contribution or        *)
(* exactly half way between two thousandths is treated exactly.            *)
(***************************************************************************)
EXTENDS Integers, Sequences, FiniteSets, TLC

Unit == 90000
Hundred == 100

Max(a, b) == IF a >= b THEN a ELSE b
Min(a, b) == IF a <= b THEN a ELSE b

(***************************************************************************)
(* Values a record field can hold.                                         *)
(*   num  : an integer                                                     *)
(*   str  : a non-numeric string such as "N/A"                             *)
(*   none : None                                                           *)
(*   inf  : float('inf') (how pandas reads the CSV cell "inf")             *)
(* A record is a Python dict: a function from a subset of Fields.          *)
(***************************************************************************)
Fields == {"attendance_percent", "fees_due_days", "attempts_in_subject_X",
           "previous_3_tests_avg", "last_3_tests_avg"}

Num(n) == [t |-> "num", v |-> n]
StrNA == [t |-> "str", v |-> 0]
NoneVal == [t |-> "none", v |-> 0]
InfVal == [t |-> "inf", v |-> 0]

\* dict.get(key, default)
Get(d, key, default) == IF key \in DOMAIN d THEN d[key] ELSE default

\* float(x): ValueError on a non-numeric string, TypeError on None.
\* (float('inf') converts to itself; records never hold it in a float field.)
ToFloat(x) ==
  CASE x.t = "num" -> [ok |-> TRUE, v |-> x.v, exc |-> ""]
    [] x.t = "str" -> [ok |-> FALSE, v |-> 0, exc |-> "ValueError"]
    [] x.t = "none" -> [ok |-> FALSE, v |-> 0, exc |-> "TypeError"]

\* int(x): ValueError on a non-numeric string, TypeError on None,
\* OverflowError on an infinite float.
ToInt(x) ==
  CASE x.t = "num" -> [ok |-> TRUE, v |-> x.v, exc |-> ""]
    [] x.t = "str" -> [ok |-> FALSE, v |-> 0, exc |-> "ValueError"]
    [] x.t = "none" -> [ok |-> FALSE, v |-> 0, exc |-> "TypeError"]
    [] x.t = "inf" -> [ok |-> FALSE, v |-> 0, exc |-> "OverflowError"]

\* The exceptions the two except clauses catch.
Caught == {"ValueError", "TypeError"}

(***************************************************************************)
(* Component risks (floats, in 1/Unit).                                    *)
(***************************************************************************)
calculate_attendance_risk(attendance_percent) ==
  IF attendance_percent >= 75 THEN 0
  ELSE Max(0, ((75 - attendance_percent) * Unit) \div 75)

\* calculate_score_trend_risk testing only previous_avg against the sentinel
calculate_score_trend_risk_one_sentinel(previous_avg, current_avg) ==
  IF previous_avg = 0 THEN 0
  ELSE LET score_drop == previous_avg - current_avg
       IN IF score_drop <= 0 THEN 0
          ELSE Min(Max((score_drop * Unit) \div 100, 0), Unit)

calculate_score_trend_risk(previous_avg, current_avg) ==
  IF previous_avg = 0 \/ current_avg = 0 THEN 0
  ELSE LET score_drop == previous_avg - current_avg
       IN IF score_drop <= 0 THEN 0
          ELSE Min(Max((score_drop * Unit) \div 100, 0), Unit)

calculate_fee_risk(fees_due_days) ==
  Min((fees_due_days * Unit) \div 90, Unit)

calculate_attempts_risk(attempts) ==
  IF attempts <= 1 THEN 0
  ELSE Min(((attempts - 1) * Unit) \div 4, Unit)

\* weight * risk, weight in hundredths
Times(weight, risk) == (weight * risk) \div Hundred

\* the comparison with > in place of >=
AtLeast_strict(x, threshold) == x * Hundred > threshold * Unit

\* x >= threshold, threshold in hundredths
AtLeast(x, threshold) == x * Hundred >= threshold * Unit

\* truncation to 3 decimals in place of rounding
round3_truncating(x) == (x \div (Unit \div 1000)) * (Unit \div 1000)

\* round(x, 3): the nearest multiple of 0.001; an exact tie goes to the
\* even multiple.
round3(x) ==
  LET step == Unit \div 1000
      q == x \div step
      r == x % step
  IN IF 2 * r > step THEN (q + 1) * step
     ELSE IF 2 * r < step THEN q * step
     ELSE IF q % 2 = 0 THEN q * step ELSE (q + 1) * step

(***************************************************************************)
(* Field extraction, the first five statements of both try blocks.  The    *)
(* conversions run in source order and the first failure leaves the block. *)
(***************************************************************************)
Extract(student_data) ==
  LET a == ToFloat(Get(student_data, "attendance_percent", Num(0)))
      f == ToInt(Get(student_data, "fees_due_days", Num(0)))
      n == ToInt(Get(student_data, "attempts_in_subject_X", Num(1)))
      p == ToFloat(Get(student_data, "previous_3_tests_avg", Num(0)))
      c == ToFloat(Get(student_data, "last_3_tests_avg", Num(0)))
      Fail(e) == [ok |-> FALSE, exc |-> e, attendance |-> 0, fees_due |-> 0,
                  attempts |-> 0, previous_avg |-> 0, current_avg |-> 0]
  IN IF ~a.ok THEN Fail(a.exc)
     ELSE IF ~f.ok THEN Fail(f.exc)
     ELSE IF ~n.ok THEN Fail(n.exc)
     ELSE IF ~p.ok THEN Fail(p.exc)
     ELSE IF ~c.ok THEN Fail(c.exc)
     ELSE [ok |-> TRUE, exc |-> "", attendance |-> a.v, fees_due |-> f.v,
           attempts |-> n.v, previous_avg |-> p.v, current_avg |-> c.v]

\* The local variables of a call once the component risks are computed.
Frame(student_data) ==
  LET x == Extract(student_data)
  IN IF ~x.ok
     THEN [ok |-> FALSE, exc |-> x.exc, attendance |-> 0, fees_due |-> 0,
           attempts |-> 0, previous_avg |-> 0, current_avg |-> 0,
           attendance_risk |-> 0, score_risk |-> 0, fee_risk |-> 0,
           attempts_risk |-> 0]
     ELSE [ok |-> TRUE, exc |-> "", attendance |-> x.attendance,
           fees_due |-> x.fees_due, attempts |-> x.attempts,
           previous_avg |-> x.previous_avg, current_avg |-> x.current_avg,
           attendance_risk |-> calculate_attendance_risk(x.attendance),
           score_risk |-> calculate_score_trend_risk(x.previous_avg, x.current_avg),
           fee_risk |-> calculate_fee_risk(x.fees_due),
           attempts_risk |-> calculate_attempts_risk(x.attempts)]

\* An exception that leaves the engine.
Raised(e) == [raised |-> e]

ErrorText(prefix, e) == [prefix |-> prefix, detail |-> e]

(***************************************************************************)
(* calculate_risk                                                          *)
(***************************************************************************)
calculate_risk(self, student_data) ==
  LET fr == Frame(student_data)
      risk_score == Times(self.weights.attendance, fr.attendance_risk)
                    + Times(self.weights.score_trend, fr.score_risk)
                    + Times(self.weights.fees, fr.fee_risk)
                    + Times(self.weights.attempts, fr.attempts_risk)
      risk_level == IF AtLeast(risk_score, self.thresholds.high) THEN "High"
                    ELSE IF AtLeast(risk_score, self.thresholds.medium) THEN "Medium"
                    ELSE "Low"
  IN IF fr.ok
     THEN [risk_score |-> risk_score,
           risk_level |-> risk_level,
           risk_color |-> self.colors[risk_level]]
     ELSE IF fr.exc \in Caught
     THEN [risk_score |-> 0,
           risk_level |-> "Low",
           risk_color |-> self.colors["Low"],
           error |-> ErrorText("Data processing error: ", fr.exc)]
     ELSE Raised(fr.exc)

(***************************************************************************)
(* generate_recommendations                                                *)
(***************************************************************************)
RECURSIVE SelectSeq2(_, _)
\* [f['factor'] for f in risk_factors if f['severity'] in sev]
SelectSeq2(risk_factors, sev) ==
  IF risk_factors = <<>> THEN <<>>
  ELSE LET f == Head(risk_factors)
           rest == SelectSeq2(Tail(risk_factors), sev)
       IN IF f.severity \in sev THEN <<f.factor>> \o rest ELSE rest

InSeq(x, s) == \E i \in 1..Len(s) : s[i] = x

\* the list returned whole
Prefix_untruncated(s, k) == s

\* recommendations[:k]
Prefix(s, k) == SubSeq(s, 1, Min(k, Len(s)))

\* the escalation with its two tests in the opposite order
Escalation_misordered(risk_factors) ==
  LET overall_risk == Len(SelectSeq2(risk_factors, {"High"}))
  IN IF overall_risk >= 1
     THEN <<"Bi-weekly check-ins and targeted intervention strategy">>
     ELSE IF overall_risk >= 2
     THEN <<"Schedule weekly mentor meetings and create comprehensive support plan">>
     ELSE <<>>

\* The general recommendation appended after the per-factor ones.
Escalation(risk_factors) ==
  LET overall_risk == Len(SelectSeq2(risk_factors, {"High"}))
  IN IF overall_risk >= 2
     THEN <<"Schedule weekly mentor meetings and create comprehensive support plan">>
     ELSE IF overall_risk >= 1
     THEN <<"Bi-weekly check-ins and targeted intervention strategy">>
     ELSE <<>>

\* The recommendations list as appended, before the final slice.
recommendations_appended(student_data, risk_factors) ==
  LET primary_risks == SelectSeq2(risk_factors, {"High", "Medium"})
      r1 == IF InSeq("Attendance", primary_risks)
            THEN LET attendance == ToFloat(Get(student_data, "attendance_percent", Num(0))).v
                 IN IF attendance < 50
                    THEN <<"URGENT: Schedule immediate parent-teacher meeting and attendance counseling">>
                    ELSE IF attendance < 65
                    THEN <<"Schedule one-on-one attendance counseling session">>
                    ELSE <<"Monitor attendance closely and provide gentle reminders">>
            ELSE <<>>
      r2 == IF InSeq("Test Score Trend", primary_risks)
            THEN LET score_drop == ToFloat(Get(student_data, "previous_3_tests_avg", Num(0))).v
                                   - ToFloat(Get(student_data, "last_3_tests_avg", Num(0))).v
                 IN IF score_drop > 15
                    THEN <<"Arrange remedial classes and peer tutoring support">>
                    ELSE IF score_drop > 8
                    THEN <<"Provide additional study materials and practice sessions">>
                    ELSE <<"Regular check-ins on study habits and academic support">>
            ELSE <<>>
      r3 == IF InSeq("Fee Payment", primary_risks)
            THEN LET fees_due == ToInt(Get(student_data, "fees_due_days", Num(0))).v
                 IN IF fees_due > 90
                    THEN <<"Connect with financial aid office for payment plan options">>
                    ELSE <<"Send fee payment reminder and discuss any financial difficulties">>
            ELSE <<>>
      r4 == IF InSeq("Subject Attempts", primary_risks)
            THEN LET attempts == ToInt(Get(student_data, "attempts_in_subject_X", Num(1))).v
                 IN IF attempts >= 4
                    THEN <<"Consider alternative learning methods or course modification">>
                    ELSE <<"Provide focused support for challenging subject areas">>
            ELSE <<>>
  IN r1 \o r2 \o r3 \o r4 \o Escalation(risk_factors)

generate_recommendations(student_data, risk_factors) ==
  Prefix(recommendations_appended(student_data, risk_factors), 3)

(***************************************************************************)
(* risk_factors.sort(key=risk_contribution, reverse=True): a stable sort,  *)
(* entries with equal keys keep their order.                               *)
(***************************************************************************)
\* an insertion that puts an entry ahead of the entries with an equal key
RECURSIVE InsertDesc_unstable(_, _)
InsertDesc_unstable(x, sorted) ==
  IF sorted = <<>> THEN <<x>>
  ELSE IF Head(sorted).risk_contribution > x.risk_contribution
       THEN <<Head(sorted)>> \o InsertDesc_unstable(x, Tail(sorted))
       ELSE <<x>> \o sorted

RECURSIVE InsertDesc(_, _)
InsertDesc(x, sorted) ==
  IF sorted = <<>> THEN <<x>>
  ELSE IF Head(sorted).risk_contribution >= x.risk_contribution
       THEN <<Head(sorted)>> \o InsertDesc(x, Tail(sorted))
       ELSE <<x>> \o sorted

RECURSIVE SortDesc(_)
SortDesc(s) ==
  IF s = <<>> THEN <<>>
  ELSE InsertDesc(s[Len(s)], SortDesc(SubSeq(s, 1, Len(s) - 1)))

Factor(name, value, contribution, severity) ==
  [factor |-> name, value |-> value, risk_contribution |-> contribution,
   severity |-> severity]

\* The risk_factors list as appended, before the sort.
BuildFactors(self, fr) ==
  LET score_drop == fr.previous_avg - fr.current_avg
  IN (IF fr.attendance_risk > 0
      THEN <<Factor("Attendance",
                    [number |-> fr.attendance, text |-> "% (below 75%)"],
                    Times(self.weights.attendance, fr.attendance_risk),
                    IF fr.attendance < 50 THEN "High"
                    ELSE IF fr.attendance < 65 THEN "Medium" ELSE "Low")>>
      ELSE <<>>)
     \o
     (IF fr.score_risk > 0
      THEN <<Factor("Test Score Trend",
                    [number |-> score_drop, text |-> "Dropped by points"],
                    Times(self.weights.score_trend, fr.score_risk),
                    IF score_drop > 15 THEN "High"
                    ELSE IF score_drop > 8 THEN "Medium" ELSE "Low")>>
      ELSE <<>>)
     \o
     (IF fr.fee_risk > 0
      THEN <<Factor("Fee Payment",
                    [number |-> fr.fees_due, text |-> " days overdue"],
                    Times(self.weights.fees, fr.fee_risk),
                    IF fr.fees_due > 90 THEN "High"
                    ELSE IF fr.fees_due > 30 THEN "Medium" ELSE "Low")>>
      ELSE <<>>)
     \o
     (IF fr.attempts_risk > 0
      THEN <<Factor("Subject Attempts",
                    [number |-> fr.attempts, text |-> " attempts"],
                    Times(self.weights.attempts, fr.attempts_risk),
                    IF fr.attempts >= 4 THEN "High"
                    ELSE IF fr.attempts >= 3 THEN "Medium" ELSE "Low")>>
      ELSE <<>>)

(***************************************************************************)
(* calculate_detailed_risk                                                 *)
(***************************************************************************)
calculate_detailed_risk(self, student_data) ==
  LET fr == Frame(student_data)
      risk_score == Times(self.weights.attendance, fr.attendance_risk)
                    + Times(self.weights.score_trend, fr.score_risk)
                    + Times(self.weights.fees, fr.fee_risk)
                    + Times(self.weights.attempts, fr.attempts_risk)
      risk_level == IF AtLeast(risk_score, self.thresholds.high) THEN "High"
                    ELSE IF AtLeast(risk_score, self.thresholds.medium) THEN "Medium"
                    ELSE "Low"
      risk_factors == SortDesc(BuildFactors(self, fr))
      top_reasons == IF Len(risk_factors) >= 2 THEN SubSeq(risk_factors, 1, 2)
                     ELSE risk_factors
      recommendations == generate_recommendations(student_data, risk_factors)
  IN IF fr.ok
     THEN [risk_score |-> round3(risk_score),
           risk_level |-> risk_level,
           risk_color |-> self.colors[risk_level],
           risk_components |->
             [attendance_risk |-> round3(fr.attendance_risk),
              score_trend_risk |-> round3(fr.score_risk),
              fee_risk |-> round3(fr.fee_risk),
              attempts_risk |-> round3(fr.attempts_risk)],
           weighted_components |->
             [attendance_weighted |-> round3(Times(self.weights.attendance, fr.attendance_risk)),
              score_trend_weighted |-> round3(Times(self.weights.score_trend, fr.score_risk)),
              fee_weighted |-> round3(Times(self.weights.fees, fr.fee_risk)),
              attempts_weighted |-> round3(Times(self.weights.attempts, fr.attempts_risk))],
           risk_factors |-> risk_factors,
           top_reasons |-> top_reasons,
           recommendations |-> recommendations]
     ELSE IF fr.exc \in Caught
     THEN [risk_score |-> 0,
           risk_level |-> "Low",
           risk_color |-> self.colors["Low"],
           error |-> ErrorText("Detailed analysis error: ", fr.exc),
           risk_factors |-> <<>>,
           top_reasons |-> <<>>,
           recommendations |-> <<>>]
     ELSE Raised(fr.exc)

(***************************************************************************)
(* The records the calls are made on.                                      *)
(***************************************************************************)
MaxAttendanceSteps == 6
MaxFeeSteps == 7
MaxAttempts == 5

AttendanceValues == {k * 15 : k \in -1..MaxAttendanceSteps} \cup {50, 65, 70}
FeeValues == {k * 15 : k \in -1..MaxFeeSteps}
AttemptValues == 0..MaxAttempts
PreviousValues == {0, 60, 80, 150}
CurrentValues == {0, 45, 55, 60, 70, 72}

\* Records whose five fields are all present and numeric.
NumericRecords ==
  { [attendance_percent |-> Num(a), fees_due_days |-> Num(f),
     attempts_in_subject_X |-> Num(n), previous_3_tests_avg |-> Num(p),
     last_3_tests_avg |-> Num(c)] :
      a \in AttendanceValues, f \in FeeValues, n \in AttemptValues,
      p \in PreviousValues, c \in CurrentValues }

\* Records in which any field may be absent, a string, None or (in the
\* two integer fields) infinite.
Absent == [t |-> "absent", v |-> 0]

LooseValues ==
  [attendance_percent |-> {Absent, Num(40), StrNA, NoneVal},
   fees_due_days |-> {Absent, Num(100), StrNA, NoneVal, InfVal},
   attempts_in_subject_X |-> {Absent, Num(5), StrNA, NoneVal, InfVal},
   previous_3_tests_avg |-> {Absent, Num(80), StrNA, NoneVal},
   last_3_tests_avg |-> {Absent, Num(55), StrNA, NoneVal}]

Dict(r) == [k \in {g \in Fields : r[g] # Absent} |-> r[k]]

LooseRecords ==
  { Dict(r) : r \in { q \in [Fields -> UNION {LooseValues[g] : g \in Fields}] :
                        \A g \in Fields : q[g] \in LooseValues[g] } }

Records == NumericRecords \cup LooseRecords

ExampleRecord ==
  [attendance_percent |-> Num(40), fees_due_days |-> Num(100),
   attempts_in_subject_X |-> Num(5), previous_3_tests_avg |-> Num(80),
   last_3_tests_avg |-> Num(55)]

\* A record of another student, scored between two calls on the row.
OtherRecords ==
  { [ExampleRecord EXCEPT !.attendance_percent = StrNA] }

(***************************************************************************)
(* State.                                                                  *)
(*   risk_calc    the module-level RiskCalculator instance (app.py)        *)
(*   row          the student record under consideration                   *)
(*   arg          the record the last call was given                       *)
(*   student_data that record as it is after the call                      *)
(*   frame        the local variables of the last call                     *)
(*   op           the method last called                                   *)
(*   last_score   input and outcome of the latest calculate_risk           *)
(*   last_detail  input and outcome of the latest calculate_detailed_risk  *)
(*   first_detail input and outcome of the first calculate_detailed_risk,  *)
(*                and whether that input was analysed again later          *)
(***************************************************************************)
VARIABLES risk_calc, row, arg, student_data, frame, op, last_score,
          last_detail, first_detail

engine_vars == <<risk_calc, row, arg, student_data, frame, op, last_score,
                 last_detail, first_detail>>

(***************************************************************************)
(* The notes store of app.py: data/student_notes.json and the              *)
(* add_student_note requests in flight.                                    *)
(*   notes_file  the file: missing, holding a JSON dict, empty (just       *)
(*               opened for writing) or corrupt; size is its length        *)
(*   reqs        per request: where it is in add_student_note, its         *)
(*               arguments, its local notes dict and its response          *)
(*   stored      every (student, note) a completed write has put in the    *)
(*               file or the file held at the start                        *)
(***************************************************************************)
VARIABLES notes_file, reqs, stored

notes_vars == <<notes_file, reqs, stored>>

(***************************************************************************)
(* The record set of app.py and the one client using it.                   *)
(*   session       'user_id' in session                                    *)
(*   students_data the global DataFrame, NoTable for None                  *)
(*   sample_file   data/students_sample.csv, NoTable when it is missing    *)
(*   accepted      the table of the last upload or sample load that        *)
(*                 succeeded                                               *)
(*   response      the last response sent                                  *)
(***************************************************************************)
VARIABLES session, students_data, sample_file, accepted, response

web_vars == <<session, students_data, sample_file, accepted, response>>

vars == <<engine_vars, notes_vars, web_vars>>

\* a constructor with the attendance and score_trend weights exchanged
RiskCalculator_exchanged ==
  [weights |-> [attendance |-> 30, score_trend |-> 50, fees |-> 15, attempts |-> 5],
   thresholds |-> [high |-> 70, medium |-> 40],
   colors |-> [High |-> "danger", Medium |-> "warning", Low |-> "success"]]

\* RiskCalculator.__init__
RiskCalculator ==
  [weights |-> [attendance |-> 50, score_trend |-> 30, fees |-> 15, attempts |-> 5],
   thresholds |-> [high |-> 70, medium |-> 40],
   colors |-> [High |-> "danger", Medium |-> "warning", Low |-> "success"]]

NoCall == [nocall |-> TRUE]
EmptyDict == [k \in {} |-> Absent]

Call(input, output) == [input |-> input, output |-> output, again |-> FALSE]

MaxRequests == 3
Requests == 1..MaxRequests
StudentIds == {"S1", "S2"}
NoteTexts == {"", " ", "called the parents"}

\* str.strip()
Strip(text) == IF text = " " THEN "" ELSE text

NoDict == [k \in {} |-> <<>>]

\* a note the file holds before any request
PriorNote == [timestamp |-> 0, mentor_id |-> "mentor", note |-> "fee waiver requested"]

RECURSIVE NoteCount(_, _)
NoteCount(notes, keys) ==
  IF keys = {} THEN 0
  ELSE LET k == CHOOSE x \in keys : TRUE
       IN 1 + Len(notes[k]) + NoteCount(notes, keys \ {k})

\* length of json.dump(notes): grows with every key and every note
Size(notes) == 2 + NoteCount(notes, DOMAIN notes)

MissingFile == [state |-> "missing", data |-> NoDict, size |-> 0]
JsonFile(notes) == [state |-> "json", data |-> notes, size |-> Size(notes)]

\* every (student, note) in a notes dict
Pairs(notes) ==
  UNION {{<<k, notes[k][i]>> : i \in 1..Len(notes[k])} : k \in DOMAIN notes}

IdleRequest ==
  [pc |-> "idle", student_id |-> "", note_text |-> "", notes |-> NoDict,
   new_note |-> PriorNote, response |-> [status |-> 0, body |-> ""]]

InitNotesIdle ==
  /\ notes_file = MissingFile
  /\ reqs = [r \in Requests |-> IdleRequest]
  /\ stored = {}

\* required_cols of upload_csv, in its order
RequiredCols ==
  <<"student_id", "first_name", "last_name", "attendance_percent",
    "fees_due_days", "attempts_in_subject_X", "last_3_tests_avg",
    "previous_3_tests_avg">>

AllCols == {RequiredCols[i] : i \in 1..Len(RequiredCols)}

\* A DataFrame: its columns and its rows; a row keeps its student_id and,
\* as data, the five numeric cells of the columns the frame has.
Table(name, columns, rows) == [name |-> name, columns |-> columns, rows |-> rows]
NoTable == Table("None", {}, <<>>)

LowRecord ==
  [attendance_percent |-> Num(90), fees_due_days |-> Num(0),
   attempts_in_subject_X |-> Num(1), previous_3_tests_avg |-> Num(60),
   last_3_tests_avg |-> Num(70)]

HighRecord ==
  [attendance_percent |-> Num(0), fees_due_days |-> Num(90),
   attempts_in_subject_X |-> Num(5), previous_3_tests_avg |-> Num(80),
   last_3_tests_avg |-> Num(60)]

StudentRow(student_id, data) == [student_id |-> student_id, data |-> data]

\* a row without the cells of the columns the file lacks
Without(data, cols) == [k \in DOMAIN data \ cols |-> data[k]]

SampleTable == Table("students_sample.csv", AllCols,
                     <<StudentRow("S1", LowRecord), StudentRow("S2", ExampleRecord)>>)
TermTable == Table("term2.CSV", AllCols,
                   <<StudentRow("S3", ExampleRecord), StudentRow("S4", HighRecord), StudentRow("S5", LowRecord)>>)
NoTrendTable == Table("no_trend.csv", AllCols \ {"previous_3_tests_avg"},
                      <<StudentRow("S6", Without(HighRecord, {"previous_3_tests_avg"}))>>)
NoFeesTable == Table("no_fees.csv", AllCols \ {"fees_due_days", "first_name"},
                     <<StudentRow("S7", Without(LowRecord, {"fees_due_days"}))>>)

\* what a POST to /api/upload-csv carries: request.files['file'] if any,
\* its filename, and what pd.read_csv makes of it ("unparsable": it raises)
Upload(has_file, filename, parsed) ==
  [has_file |-> has_file, filename |-> filename, parsed |-> parsed]

Uploads ==
  { Upload(FALSE, "", NoTable),
    Upload(TRUE, "", TermTable),
    Upload(TRUE, "students.txt", TermTable),
    Upload(TRUE, "term2.CSV", TermTable),
    Upload(TRUE, "no_trend.csv", NoTrendTable),
    Upload(TRUE, "no_fees.csv", NoFeesTable),
    Upload(TRUE, "header_only.csv", Table("header_only.csv", AllCols, <<>>)),
    Upload(TRUE, "empty.csv", Table("unparsable", {}, <<>>)) }

\* file.filename.lower().endswith('.csv')
IsCsvName(filename) ==
  filename \in {"term2.CSV", "no_trend.csv", "no_fees.csv", "header_only.csv", "empty.csv"}

NoResponse == [endpoint |-> "", status |-> 0, body |-> <<>>]

InitWebIdle ==
  /\ session = FALSE
  /\ students_data = NoTable
  /\ sample_file = NoTable
  /\ accepted = NoTable
  /\ response = NoResponse

InitEngine ==
  /\ risk_calc = RiskCalculator
  /\ arg = EmptyDict
  /\ student_data = EmptyDict
  /\ frame = Frame(EmptyDict)
  /\ op = "none"
  /\ last_score = NoCall
  /\ last_detail = NoCall
  /\ first_detail = NoCall

Init ==
  /\ InitNotesIdle
  /\ InitWebIdle
  /\ risk_calc = RiskCalculator
  /\ row \in Records
  /\ arg = EmptyDict
  /\ student_data = EmptyDict
  /\ frame = Frame(EmptyDict)
  /\ op = "none"
  /\ last_score = NoCall
  /\ last_detail = NoCall
  /\ first_detail = NoCall

\* risk_calc.calculate_risk(r), as get_students and get_summary call it
CalculateRisk(r) ==
  /\ arg' = r
  /\ student_data' = r
  /\ frame' = Frame(r)
  /\ op' = "calculate_risk"
  /\ last_score' = Call(r, calculate_risk(risk_calc, r))
  /\ UNCHANGED <<risk_calc, row, last_detail, first_detail, notes_vars, web_vars>>

\* a detailed analysis that stores its threshold adjustment on the instance
CalculateDetailedRisk_mutating(r) ==
  /\ arg' = r
  /\ student_data' = r
  /\ frame' = Frame(r)
  /\ op' = "calculate_detailed_risk"
  /\ last_detail' = Call(r, calculate_detailed_risk(risk_calc, r))
  /\ first_detail' = IF first_detail = NoCall
                     THEN Call(r, calculate_detailed_risk(risk_calc, r))
                     ELSE IF r = first_detail.input
                     THEN [first_detail EXCEPT !.again = TRUE]
                     ELSE first_detail
  /\ risk_calc' = [risk_calc EXCEPT !.thresholds.medium = 30]
  /\ UNCHANGED <<row, last_score, notes_vars, web_vars>>

\* risk_calc.calculate_detailed_risk(r), as get_student_detail calls it
CalculateDetailedRisk(r) ==
  /\ arg' = r
  /\ student_data' = r
  /\ frame' = Frame(r)
  /\ op' = "calculate_detailed_risk"
  /\ last_detail' = Call(r, calculate_detailed_risk(risk_calc, r))
  /\ first_detail' = IF first_detail = NoCall
                     THEN Call(r, calculate_detailed_risk(risk_calc, r))
                     ELSE IF r = first_detail.input
                     THEN [first_detail EXCEPT !.again = TRUE]
                     ELSE first_detail
  /\ UNCHANGED <<risk_calc, row, last_score, notes_vars, web_vars>>

Next ==
  \/ \E r \in {row} \cup OtherRecords : CalculateRisk(r)
  \/ \E r \in {row} \cup OtherRecords : CalculateDetailedRisk(r)

Spec == Init /\ [][Next]_vars

(***************************************************************************)
(* add_student_note, run by the threads of the server.  A request is at    *)
(*   idle  not yet received                                                *)
(*   load  past the session and note-text checks                           *)
(*   open  notes loaded and the new note appended to the local dict        *)
(*   dump  file opened for writing (truncated), json.dump still to run     *)
(*   done  response returned                                               *)
(***************************************************************************)
Respond(status, body) == [status |-> status, body |-> body]

\* lines 247-254
BeginNote(r, logged_in, student_id, text) ==
  /\ reqs[r].pc = "idle"
  /\ reqs' = [reqs EXCEPT ![r] =
       IF ~logged_in
       THEN [@ EXCEPT !.pc = "done", !.response = Respond(401, "Unauthorized")]
       ELSE IF Strip(text) = ""
       THEN [@ EXCEPT !.pc = "done", !.student_id = student_id,
                      !.response = Respond(400, "Note text is required")]
       ELSE [@ EXCEPT !.pc = "load", !.student_id = student_id,
                      !.note_text = Strip(text)]]
  /\ UNCHANGED <<notes_file, stored, engine_vars, web_vars>>

\* load_student_notes and lines 261-270: the file is read whole; a file
\* that is empty or corrupt makes json.load raise, caught at line 280
LoadNotes(r) ==
  /\ reqs[r].pc = "load"
  /\ reqs' = [reqs EXCEPT ![r] =
       IF notes_file.state \in {"empty", "corrupt"}
       THEN [@ EXCEPT !.pc = "done", !.response = Respond(500, "Error saving note")]
       ELSE LET loaded == notes_file.data
                sid == @.student_id
                new_note == [timestamp |-> r, mentor_id |-> "mentor", note |-> @.note_text]
                notes == [k \in DOMAIN loaded \cup {sid} |->
                            IF k = sid
                            THEN Append(IF sid \in DOMAIN loaded THEN loaded[sid] ELSE <<>>,
                                        new_note)
                            ELSE loaded[k]]
            IN [@ EXCEPT !.pc = "open", !.notes = notes, !.new_note = new_note]]
  /\ UNCHANGED <<notes_file, stored, engine_vars, web_vars>>

\* save_student_notes, open(notes_file, 'w'): creates or truncates the file
OpenNotes(r) ==
  /\ reqs[r].pc = "open"
  /\ notes_file' = [state |-> "empty", data |-> NoDict, size |-> 0]
  /\ reqs' = [reqs EXCEPT ![r].pc = "dump"]
  /\ UNCHANGED <<stored, engine_vars, web_vars>>

\* save_student_notes, json.dump and close, then lines 275-278: the text is
\* written from offset 0; what another writer has written beyond its end
\* stays in the file
DumpNotes(r) ==
  /\ reqs[r].pc = "dump"
  /\ LET mine == JsonFile(reqs[r].notes)
     IN /\ notes_file' = IF notes_file.size > mine.size
                         THEN [state |-> "corrupt", data |-> NoDict, size |-> notes_file.size]
                         ELSE mine
        /\ stored' = IF notes_file.size > mine.size THEN stored
                     ELSE stored \cup Pairs(reqs[r].notes)
  /\ reqs' = [reqs EXCEPT ![r].pc = "done",
                          ![r].response = Respond(200, "Note added successfully")]
  /\ UNCHANGED <<engine_vars, web_vars>>

InitNotes ==
  /\ InitEngine
  /\ InitWebIdle
  /\ row = ExampleRecord
  /\ notes_file \in {MissingFile, JsonFile([k \in {"S1"} |-> <<PriorNote>>])}
  /\ reqs = [r \in Requests |-> IdleRequest]
  /\ stored = Pairs(notes_file.data)

NextNotes ==
  \/ \E r \in Requests, logged_in \in BOOLEAN, sid \in StudentIds, text \in NoteTexts :
       BeginNote(r, logged_in, sid, text)
  \/ \E r \in Requests : LoadNotes(r)
  \/ \E r \in Requests : OpenNotes(r)
  \/ \E r \in Requests : DumpNotes(r)

SpecNotes == InitNotes /\ [][NextNotes]_vars

(***************************************************************************)
(* The endpoints that load and serve the record set.                       *)
(***************************************************************************)
Reply(endpoint, status, body) == [endpoint |-> endpoint, status |-> status, body |-> body]

\* [col for col in required_cols if col not in students_data.columns]
MissingCols(table) == SelectSeq(RequiredCols, LAMBDA c : c \notin table.columns)

\* login with the demo credentials or with others
Login(good) ==
  /\ session' = (IF good THEN TRUE ELSE session)
  /\ response' = Reply("login", 200, IF good THEN <<"success">> ELSE <<"error">>)
  /\ UNCHANGED <<students_data, sample_file, accepted, engine_vars, notes_vars>>

Logout ==
  /\ session' = FALSE
  /\ response' = Reply("logout", 302, <<>>)
  /\ UNCHANGED <<students_data, sample_file, accepted, engine_vars, notes_vars>>

\* dashboard: loads the sample data when nothing is loaded yet
Dashboard ==
  /\ IF ~session
     THEN /\ response' = Reply("dashboard", 302, <<>>)
          /\ UNCHANGED <<students_data, accepted>>
     ELSE /\ response' = Reply("dashboard", 200, <<>>)
          /\ IF students_data = NoTable /\ sample_file # NoTable
             THEN students_data' = sample_file /\ accepted' = sample_file
             ELSE UNCHANGED <<students_data, accepted>>
  /\ UNCHANGED <<session, sample_file, engine_vars, notes_vars>>

\* load_sample
LoadSample ==
  /\ IF ~session
     THEN /\ response' = Reply("load_sample", 401, <<"Unauthorized">>)
          /\ UNCHANGED <<students_data, accepted>>
     ELSE IF sample_file # NoTable
     THEN /\ students_data' = sample_file
          /\ accepted' = sample_file
          /\ response' = Reply("load_sample", 200,
                               <<"Sample data loaded successfully", Len(sample_file.rows)>>)
     ELSE /\ response' = Reply("load_sample", 404, <<"Sample data file not found">>)
          /\ UNCHANGED <<students_data, accepted>>
  /\ UNCHANGED <<session, sample_file, engine_vars, notes_vars>>

\* upload_csv
UploadCsv(u) ==
  /\ IF ~session
     THEN /\ response' = Reply("upload_csv", 401, <<"Unauthorized">>)
          /\ UNCHANGED <<students_data, accepted>>
     ELSE IF ~u.has_file
     THEN /\ response' = Reply("upload_csv", 400, <<"No file provided">>)
          /\ UNCHANGED <<students_data, accepted>>
     ELSE IF u.filename = ""
     THEN /\ response' = Reply("upload_csv", 400, <<"No file selected">>)
          /\ UNCHANGED <<students_data, accepted>>
     ELSE IF ~IsCsvName(u.filename)
     THEN /\ response' = Reply("upload_csv", 400,
                               <<"Invalid file format. Please upload a CSV file.">>)
          /\ UNCHANGED <<students_data, accepted>>
     ELSE IF u.parsed.name = "unparsable"
     THEN /\ response' = Reply("upload_csv", 400, <<"Error processing CSV">>)
          /\ UNCHANGED <<students_data, accepted>>
     ELSE /\ students_data' = u.parsed
          /\ IF MissingCols(u.parsed) # <<>>
             THEN /\ response' = Reply("upload_csv", 400,
                                       <<"Missing columns">> \o MissingCols(u.parsed))
                  /\ UNCHANGED accepted
             ELSE /\ response' = Reply("upload_csv", 200,
                                       <<"CSV uploaded successfully", Len(u.parsed.rows)>>)
                  /\ accepted' = u.parsed
  /\ UNCHANGED <<session, sample_file, engine_vars, notes_vars>>

\* students_with_risk.sort(key=risk_score, reverse=True), a stable sort
RECURSIVE InsertByScore(_, _)
InsertByScore(x, sorted) ==
  IF sorted = <<>> THEN <<x>>
  ELSE IF Head(sorted).risk_score >= x.risk_score
       THEN <<Head(sorted)>> \o InsertByScore(x, Tail(sorted))
       ELSE <<x>> \o sorted

RECURSIVE SortByScore(_)
SortByScore(s) ==
  IF s = <<>> THEN <<>>
  ELSE InsertByScore(s[Len(s)], SortByScore(SubSeq(s, 1, Len(s) - 1)))

\* row[c] or student[c] for each c in cols raises KeyError
KeyError(table, cols) == ~(cols \subseteq table.columns)

\* risk_calc.calculate_risk(row.to_dict()) of every row, as the loops of
\* get_students and get_summary compute them
RiskResults(table) ==
  [i \in 1..Len(table.rows) |-> calculate_risk(risk_calc, table.rows[i].data)]

\* some calculate_risk of the loop raises
ScoreRaises(results) ==
  \E i \in DOMAIN results : "raised" \in DOMAIN results[i]

\* get_students
GetStudents ==
  /\ \E results \in {RiskResults(students_data)} :
       response' =
         IF ~session THEN Reply("get_students", 401, <<"Unauthorized">>)
         ELSE IF students_data = NoTable
         THEN Reply("get_students", 400, <<"No student data loaded">>)
         ELSE IF \/ ScoreRaises(results)
                 \/ KeyError(students_data,
                             {"student_id", "first_name", "last_name",
                              "attendance_percent", "fees_due_days", "last_3_tests_avg"})
         THEN Reply("get_students", 500, <<"Error calculating risks">>)
         ELSE Reply("get_students", 200,
                    SortByScore([i \in DOMAIN results |->
                      [student_id |-> students_data.rows[i].student_id,
                       risk_score |-> round3(results[i].risk_score),
                       risk_level |-> results[i].risk_level,
                       risk_color |-> results[i].risk_color]]))
  /\ UNCHANGED <<session, students_data, sample_file, accepted, engine_vars, notes_vars>>

\* students_data[students_data['student_id'] == student_id]: the indices of
\* the matching rows
Matching(table, student_id) ==
  {i \in 1..Len(table.rows) : table.rows[i].student_id = student_id}

\* student_row.iloc[0]
First(indices) == CHOOSE i \in indices : \A j \in indices : i <= j

\* get_student_detail
GetStudentDetail(student_id) ==
  /\ \E student_row \in {Matching(students_data, student_id)} :
     \E risk_result \in {IF student_row = {} THEN NoDict
                         ELSE calculate_detailed_risk(
                                risk_calc, students_data.rows[First(student_row)].data)} :
       response' =
         IF ~session THEN Reply("get_student_detail", 401, <<"Unauthorized">>)
         ELSE IF students_data = NoTable
         THEN Reply("get_student_detail", 400, <<"No student data loaded">>)
         ELSE IF KeyError(students_data, {"student_id"})
         THEN Reply("get_student_detail", 500, <<"Error fetching student details">>)
         ELSE IF student_row = {}
         THEN Reply("get_student_detail", 404, <<"Student not found">>)
         ELSE IF \/ "raised" \in DOMAIN risk_result
                 \/ notes_file.state \in {"empty", "corrupt"}
                 \/ KeyError(students_data,
                             {"first_name", "last_name", "attendance_percent",
                              "fees_due_days", "attempts_in_subject_X",
                              "last_3_tests_avg", "previous_3_tests_avg"})
         THEN Reply("get_student_detail", 500, <<"Error fetching student details">>)
         ELSE Reply("get_student_detail", 200,
                    <<[student_id |-> students_data.rows[First(student_row)].student_id,
                       risk_analysis |-> risk_result,
                       intervention_notes |->
                         IF student_id \in DOMAIN notes_file.data
                         THEN notes_file.data[student_id] ELSE <<>>]>>)
  /\ UNCHANGED <<session, students_data, sample_file, accepted, engine_vars, notes_vars>>

\* round(x, 1) of the percentage high / total * 100, in tenths
Round1Percent(high, total) ==
  LET q == (high * 1000) \div total
      r == (high * 1000) % total
  IN IF 2 * r > total THEN q + 1
     ELSE IF 2 * r < total THEN q
     ELSE IF q % 2 = 0 THEN q ELSE q + 1

\* risk_counts[level] after the loop
RiskCount(results, level) ==
  Cardinality({i \in DOMAIN results : results[i].risk_level = level})

\* get_summary
GetSummary ==
  /\ \E results \in {RiskResults(students_data)} :
       response' =
         IF ~session THEN Reply("get_summary", 401, <<"Unauthorized">>)
         ELSE IF students_data = NoTable
         THEN Reply("get_summary", 400, <<"No student data loaded">>)
         ELSE IF \/ ScoreRaises(results)
                 \/ KeyError(students_data,
                             {"student_id", "attendance_percent",
                              "previous_3_tests_avg", "last_3_tests_avg"})
                 \/ Len(students_data.rows) = 0
         THEN Reply("get_summary", 500, <<"Error generating summary">>)
         ELSE Reply("get_summary", 200,
                    <<[total_students |-> Len(students_data.rows),
                       risk_distribution |-> [Low |-> RiskCount(results, "Low"),
                                              Medium |-> RiskCount(results, "Medium"),
                                              High |-> RiskCount(results, "High")],
                       student_ids |-> [i \in DOMAIN results |->
                                          students_data.rows[i].student_id],
                       high_risk_percentage |->
                         Round1Percent(RiskCount(results, "High"),
                                       Len(students_data.rows))]>>)
  /\ UNCHANGED <<session, students_data, sample_file, accepted, engine_vars, notes_vars>>

\* the process starts with the sample file present or not; run as a script
\* it loads the sample at startup, imported by a server it does not
InitWeb ==
  /\ InitEngine
  /\ InitNotesIdle
  /\ row = ExampleRecord
  /\ session = FALSE
  /\ sample_file \in {NoTable, SampleTable}
  /\ students_data \in {NoTable, sample_file}
  /\ accepted = students_data
  /\ response = NoResponse

NextWeb ==
  \/ \E good \in BOOLEAN : Login(good)
  \/ Logout
  \/ Dashboard
  \/ LoadSample
  \/ \E u \in Uploads : UploadCsv(u)
  \/ GetStudents
  \/ \E sid \in {"S1", "S3", "S6", "S7"} : GetStudentDetail(sid)
  \/ GetSummary

SpecWeb == InitWeb /\ [][NextWeb]_vars

(***************************************************************************)
(* Properties.                                                             *)
(***************************************************************************)
Returned(out) == "risk_score" \in DOMAIN out
HasError(out) == "error" \in DOMAIN out
DidRaise(out) == "raised" \in DOMAIN out

\* all five fields convert to numbers
NumericFields(r) == Extract(r).ok

Clamp(x, lo, hi) == IF x < lo THEN lo ELSE IF x > hi THEN hi ELSE x

InUnitInterval(x) == 0 <= x /\ x <= Unit

ScoreCalled == op = "calculate_risk"
DetailCalled == op = "calculate_detailed_risk"

\* C1: for every record whose five fields parse as numbers, each of the
\* four component risks lies in [0,1], the risk_score calculate_risk
\* returns lies in [0,1], and the fee risk is clamp(fees_due_days/90, 0, 1).
C1_RisksInUnitInterval ==
  (op # "none" /\ frame.ok) =>
    /\ InUnitInterval(frame.attendance_risk)
    /\ InUnitInterval(frame.score_risk)
    /\ InUnitInterval(frame.fee_risk)
    /\ InUnitInterval(frame.attempts_risk)
    /\ frame.fee_risk = Clamp((frame.fees_due * Unit) \div 90, 0, Unit)
    /\ ScoreCalled => InUnitInterval(last_score.output.risk_score)

\* C2: for every record with numeric fields, calculate_risk returns High
\* exactly when risk_score >= 0.70, Medium exactly when
\* 0.40 <= risk_score < 0.70 and Low otherwise, and risk_color is the image
\* of risk_level under High->danger, Medium->warning, Low->success.
C2_LevelFollowsScore ==
  (ScoreCalled /\ NumericFields(last_score.input)) =>
    LET out == last_score.output
        x == out.risk_score
    IN /\ Returned(out)
       /\ (out.risk_level = "High") <=> (10 * x >= 7 * Unit)
       /\ (out.risk_level = "Medium") <=> (10 * x >= 4 * Unit /\ 10 * x < 7 * Unit)
       /\ (out.risk_level = "Low") <=> (10 * x < 4 * Unit)
       /\ out.risk_color = (CASE out.risk_level = "High" -> "danger"
                              [] out.risk_level = "Medium" -> "warning"
                              [] out.risk_level = "Low" -> "success")

\* C2 witness: calculate_risk returned a score of exactly 0.70 as High.
C2_Witness ==
  /\ ScoreCalled
  /\ NumericFields(last_score.input)
  /\ last_score.output.risk_score * 10 = 7 * Unit
  /\ last_score.output.risk_level = "High"

SameInput ==
  /\ last_score # NoCall
  /\ last_detail # NoCall
  /\ last_score.input = last_detail.input

\* C3 as stated: on the same input record, calculate_risk and
\* calculate_detailed_risk return the same risk_score, risk_level and
\* risk_color.
C3_SameSummary ==
  (SameInput /\ Returned(last_score.output) /\ Returned(last_detail.output)) =>
    /\ last_detail.output.risk_score = last_score.output.risk_score
    /\ last_detail.output.risk_level = last_score.output.risk_level
    /\ last_detail.output.risk_color = last_score.output.risk_color

\* C3 amended: on the same input record, calculate_detailed_risk raises
\* exactly when calculate_risk raises (the same exception); otherwise both
\* return the same risk_level and risk_color, and the detailed risk_score is
\* a multiple of 0.001 within 0.0005 of the risk_score of calculate_risk
\* (it is that score rounded to 3 decimals).
C3_SameSummaryUpToRounding ==
  SameInput =>
    LET a == last_score.output
        b == last_detail.output
    IN /\ DidRaise(a) <=> DidRaise(b)
       /\ DidRaise(a) => a.raised = b.raised
       /\ Returned(a) <=> Returned(b)
       /\ Returned(a) =>
            /\ b.risk_level = a.risk_level
            /\ b.risk_color = a.risk_color
            /\ (b.risk_score * 1000) % Unit = 0
            /\ 2000 * (b.risk_score - a.risk_score) <= Unit
            /\ 2000 * (a.risk_score - b.risk_score) <= Unit

\* C3 witness: both methods returned for the same record and the two
\* risk_scores differ.
C3_Witness ==
  /\ SameInput
  /\ Returned(last_score.output)
  /\ Returned(last_detail.output)
  /\ last_score.output.risk_score # last_detail.output.risk_score
  /\ last_score.output.risk_level = "Medium"

\* some field of the record cannot be converted
Malformed(r) == ~NumericFields(r)

SafeDefault(out) ==
  /\ Returned(out)
  /\ out.risk_score = 0
  /\ out.risk_level = "Low"
  /\ out.risk_color = "success"
  /\ HasError(out)
  /\ out.error.prefix # ""

\* C4: for every record in which a field cannot be converted to a number,
\* neither method raises: both return risk_score 0, Low, success and a
\* non-empty error, and calculate_detailed_risk returns empty risk_factors,
\* top_reasons and recommendations.
C4_MalformedGivesSafeDefault ==
  /\ (last_score # NoCall /\ Malformed(last_score.input)) =>
        SafeDefault(last_score.output)
  /\ (last_detail # NoCall /\ Malformed(last_detail.input)) =>
        /\ SafeDefault(last_detail.output)
        /\ last_detail.output.risk_factors = <<>>
        /\ last_detail.output.top_reasons = <<>>
        /\ last_detail.output.recommendations = <<>>

\* C5: for every record with numeric fields, the risk_score calculate_risk
\* returns is 0.50*attendanceRisk + 0.30*scoreTrendRisk + 0.15*feeRisk
\* + 0.05*attemptsRisk, the weights summing to 1.0; for the example record
\* the score is 0.5083 to 4 decimals, the level Medium, the color warning.
C5_WeightedSum ==
  (ScoreCalled /\ NumericFields(last_score.input)) =>
    LET out == last_score.output
        w == risk_calc.weights
    IN /\ Returned(out)
       /\ 100 * out.risk_score = 50 * frame.attendance_risk
                                 + 30 * frame.score_risk
                                 + 15 * frame.fee_risk
                                 + 5 * frame.attempts_risk
       /\ w.attendance + w.score_trend + w.fees + w.attempts = Hundred
       /\ last_score.input = ExampleRecord =>
            /\ 2 * 10000 * out.risk_score > (2 * 5083 - 1) * Unit
            /\ 2 * 10000 * out.risk_score < (2 * 5083 + 1) * Unit
            /\ out.risk_level = "Medium"
            /\ out.risk_color = "warning"

\* C5 witness: calculate_risk has scored the example record.
C5_Witness ==
  /\ ScoreCalled
  /\ last_score.input = ExampleRecord
  /\ frame.attendance_risk = (35 * Unit) \div 75
  /\ frame.score_risk = Unit \div 4
  /\ frame.fee_risk = Unit
  /\ frame.attempts_risk = Unit
  /\ last_score.output.risk_level = "Medium"

C7_TopReasonsAndRecommendationsBounded ==
  (last_detail # NoCall /\ Returned(last_detail.output)) =>
    LET out == last_detail.output
        n == Len(out.risk_factors)
    IN /\ Len(out.top_reasons) <= 2
       /\ \A i \in 1..Len(out.top_reasons) :
            \E j \in 1..n : out.risk_factors[j] = out.top_reasons[i]
       /\ Len(out.top_reasons) = Min(2, n)
       /\ \A i \in 1..Len(out.top_reasons) : out.top_reasons[i] = out.risk_factors[i]
       /\ Len(out.recommendations) <= 3

\* C7 witness: a detailed result with four risk factors, two top reasons
\* and three recommendations.
C7_Witness ==
  /\ last_detail # NoCall
  /\ Returned(last_detail.output)
  /\ Len(last_detail.output.risk_factors) = 4
  /\ Len(last_detail.output.top_reasons) = 2
  /\ Len(last_detail.output.recommendations) = 3

ComponentNames == <<"Attendance", "Test Score Trend", "Fee Payment", "Subject Attempts">>

\* position of a factor name in evaluation order
EvalIndex(name) == CHOOSE i \in 1..4 : ComponentNames[i] = name

\* C9: for every record with numeric fields, risk_factors has exactly one
\* entry for each component whose risk is > 0 and none for one whose risk
\* is 0, each with risk_contribution = risk * weight; the list is ordered
\* by risk_contribution descending, equal contributions in evaluation order.
C9_RiskFactors ==
  (DetailCalled /\ NumericFields(last_detail.input)) =>
    LET out == last_detail.output
        rf == out.risk_factors
        risk == <<frame.attendance_risk, frame.score_risk, frame.fee_risk,
                  frame.attempts_risk>>
        weight == <<50, 30, 15, 5>>
    IN /\ Returned(out)
       /\ \A c \in 1..4 :
            Cardinality({i \in 1..Len(rf) : rf[i].factor = ComponentNames[c]})
              = IF risk[c] > 0 THEN 1 ELSE 0
       /\ \A i \in 1..Len(rf) :
            /\ rf[i].factor \in {ComponentNames[c] : c \in 1..4}
            /\ 100 * rf[i].risk_contribution
                 = weight[EvalIndex(rf[i].factor)] * risk[EvalIndex(rf[i].factor)]
       /\ \A i \in 1..Len(rf) - 1 :
            \/ rf[i].risk_contribution > rf[i + 1].risk_contribution
            \/ /\ rf[i].risk_contribution = rf[i + 1].risk_contribution
               /\ EvalIndex(rf[i].factor) < EvalIndex(rf[i + 1].factor)

\* C9 witness: Attendance and Fee Payment contribute equally and Attendance
\* is listed first, ahead of a smaller third factor.
C9_Witness ==
  /\ DetailCalled
  /\ NumericFields(last_detail.input)
  /\ Len(last_detail.output.risk_factors) >= 3
  /\ last_detail.output.risk_factors[1].factor = "Attendance"
  /\ last_detail.output.risk_factors[2].factor = "Fee Payment"
  /\ last_detail.output.risk_factors[1].risk_contribution
       = last_detail.output.risk_factors[2].risk_contribution

SentencesOf(name) ==
  CASE name = "Attendance" ->
         {"URGENT: Schedule immediate parent-teacher meeting and attendance counseling",
          "Schedule one-on-one attendance counseling session",
          "Monitor attendance closely and provide gentle reminders"}
    [] name = "Test Score Trend" ->
         {"Arrange remedial classes and peer tutoring support",
          "Provide additional study materials and practice sessions",
          "Regular check-ins on study habits and academic support"}
    [] name = "Fee Payment" ->
         {"Connect with financial aid office for payment plan options",
          "Send fee payment reminder and discuss any financial difficulties"}
    [] name = "Subject Attempts" ->
         {"Consider alternative learning methods or course modification",
          "Provide focused support for challenging subject areas"}

WeeklySentence == "Schedule weekly mentor meetings and create comprehensive support plan"
BiWeeklySentence == "Bi-weekly check-ins and targeted intervention strategy"

\* severity of the factor called name in rf, "None" when it is not listed
SeverityIn(rf, name) ==
  IF \E i \in 1..Len(rf) : rf[i].factor = name
  THEN rf[CHOOSE i \in 1..Len(rf) : rf[i].factor = name].severity
  ELSE "None"

\* the components of severity Medium or High, in evaluation order
RECURSIVE PrimaryFrom(_, _)
PrimaryFrom(rf, c) ==
  IF c > 4 THEN <<>>
  ELSE (IF SeverityIn(rf, ComponentNames[c]) \in {"Medium", "High"}
        THEN <<ComponentNames[c]>> ELSE <<>>) \o PrimaryFrom(rf, c + 1)

\* C10: for every record with numeric fields, recommendations is the first
\* 3 entries of: one sentence per factor of severity Medium or High, in the
\* order Attendance, Test Score Trend, Fee Payment, Subject Attempts, then
\* the weekly-mentor-meetings sentence when at least 2 factors are High, the
\* bi-weekly-check-ins sentence when exactly 1 is, and nothing when none is.
C10_Recommendations ==
  (DetailCalled /\ NumericFields(last_detail.input)) =>
    LET out == last_detail.output
        rf == out.risk_factors
        recs == out.recommendations
        primary == PrimaryFrom(rf, 1)
        highs == Cardinality({i \in 1..Len(rf) : rf[i].severity = "High"})
        full == Len(primary) + (IF highs >= 1 THEN 1 ELSE 0)
    IN /\ Returned(out)
       /\ Len(recs) = Min(3, full)
       /\ \A i \in 1..Len(recs) :
            IF i <= Len(primary)
            THEN recs[i] \in SentencesOf(primary[i])
            ELSE recs[i] = (IF highs >= 2 THEN WeeklySentence ELSE BiWeeklySentence)

\* C10 witness: Fee Payment (High) outranks Attendance (Medium) in
\* risk_factors, yet the attendance sentence comes first and the bi-weekly
\* sentence closes the list.
C10_Witness ==
  /\ DetailCalled
  /\ NumericFields(last_detail.input)
  /\ Len(last_detail.output.risk_factors) = 2
  /\ last_detail.output.risk_factors[1].factor = "Fee Payment"
  /\ last_detail.output.risk_factors[2].factor = "Attendance"
  /\ last_detail.output.recommendations =
       <<"Schedule one-on-one attendance counseling session",
         "Connect with financial aid office for payment plan options",
         BiWeeklySentence>>

\* C11: every row of the recommendation rule table takes effect: whenever
\* a component has risk > 0 and the row's condition holds for the record,
\* the row's sentence is generated (before the cut to 3); in particular
\* 65 <= attendance_percent < 75 gives the monitor-attendance sentence, a
\* score drop in (0, 8] the regular-check-ins sentence and
\* 0 < fees_due_days <= 90 the fee-reminder sentence.
C11_EveryRowTakesEffect ==
  (DetailCalled /\ NumericFields(last_detail.input) /\ Returned(last_detail.output)) =>
    LET gen == recommendations_appended(last_detail.input,
                                        last_detail.output.risk_factors)
        att == frame.attendance
        drop == frame.previous_avg - frame.current_avg
        fees == frame.fees_due
        n == frame.attempts
        Row(cond, sentence) == cond => InSeq(sentence, gen)
    IN /\ Row(frame.attendance_risk > 0 /\ att < 50,
              "URGENT: Schedule immediate parent-teacher meeting and attendance counseling")
       /\ Row(frame.attendance_risk > 0 /\ 50 <= att /\ att < 65,
              "Schedule one-on-one attendance counseling session")
       /\ Row(frame.attendance_risk > 0 /\ 65 <= att /\ att < 75,
              "Monitor attendance closely and provide gentle reminders")
       /\ Row(frame.score_risk > 0 /\ drop > 15,
              "Arrange remedial classes and peer tutoring support")
       /\ Row(frame.score_risk > 0 /\ 8 < drop /\ drop <= 15,
              "Provide additional study materials and practice sessions")
       /\ Row(frame.score_risk > 0 /\ 0 < drop /\ drop <= 8,
              "Regular check-ins on study habits and academic support")
       /\ Row(frame.fee_risk > 0 /\ fees > 90,
              "Connect with financial aid office for payment plan options")
       /\ Row(frame.fee_risk > 0 /\ 0 < fees /\ fees <= 90,
              "Send fee payment reminder and discuss any financial difficulties")
       /\ Row(frame.attempts_risk > 0 /\ n >= 4,
              "Consider alternative learning methods or course modification")
       /\ Row(frame.attempts_risk > 0 /\ n = 3,
              "Provide focused support for challenging subject areas")

\* no add_student_note request is between its load and the end of its save
NotesQuiescent == \A r \in Requests : reqs[r].pc \in {"idle", "done"}

\* C12: the notes store is append-only and its updates are serialized: for
\* any interleaving of concurrent add_student_note requests, once they have
\* finished every note whose request returned 'Note added successfully' is
\* in the stored notes, and no note stored before has been removed.
C12_NotesAppendOnly ==
  NotesQuiescent =>
    /\ \A r \in Requests :
         reqs[r].response.status = 200 =>
           <<reqs[r].student_id, reqs[r].new_note>> \in Pairs(notes_file.data)
    /\ stored \subseteq Pairs(notes_file.data)

\* the student ids of a table, as a set
IdsOf(table) == {table.rows[i].student_id : i \in 1..Len(table.rows)}

\* the student ids a 200 response of get_students, get_student_detail or
\* get_summary serves
ServedIds ==
  CASE response.endpoint = "get_students" ->
         {response.body[i].student_id : i \in 1..Len(response.body)}
    [] response.endpoint = "get_student_detail" -> {response.body[1].student_id}
    [] response.endpoint = "get_summary" ->
         {response.body[1].student_ids[i] : i \in 1..Len(response.body[1].student_ids)}

\* C13: an upload_csv request that is rejected (in particular with 'Missing
\* columns', status 400) leaves students_data unchanged, so after any
\* sequence of uploads the record set get_students, get_student_detail and
\* get_summary serve is that of the last accepted upload or sample load.
C13_RejectedUploadKeepsData ==
  /\ students_data = accepted
  /\ (response.endpoint \in {"get_students", "get_student_detail", "get_summary"}
        /\ response.status = 200) =>
       ServedIds \subseteq IdsOf(accepted)

====
